---- MODULE Spec2Model ----
(***************************************************************************)
(* The update-tree and merge-tree commands of dvc_data/cli.py: patch       *)
(* assembly (process_patch), patch application (apply_op), the fail-fast   *)
(* loop of update_tree and the conflict check of merge_tree.               *)
(*                                                                         *)
(* A string is a sequence of one-character strings, a tree key is a        *)
(* sequence of segments (strings), a Tree is a record with its _dict, its  *)
(* cached trie and its hash_info.                                          *)
(***************************************************************************)
EXTENDS Integers, Sequences, FiniteSets, TLC

VARIABLES
    cmd,        \* the command that runs: "update-tree" or "merge-tree"
    pc,         \* position in the command
    err,        \* the exception that ended the command, "" if none
    patch_file, \* --patch-file: [given, records]
    kwargs,     \* the multi-value options, by option name
    patch,      \* the list process_patch returned
    idx,        \* position of the for loop of update_tree in patch (1-based)
    obj,        \* the Tree that is edited: [dict, trie, hash_info]
    obj1,       \* merge_tree: _dict of the first tree
    obj2,       \* merge_tree: _dict of the second tree
    force,      \* merge_tree: --force
    odb,        \* the object store: [files, trees], the oids it holds
    echoed,     \* merge_tree: the conflicting paths echoed
    arg,        \* rm: the oid [tree, file, dir]; build: [path, write]
    obj0,       \* history: the _dict as loaded
    odb0,       \* history: the store before the command
    applied,    \* history: the indexes apply_op was called with, in call order
    hist,       \* history: [dict, trie, odb] right before each apply_op call
    tree_adds   \* history: the odb.add calls of a tree, [oid, dict] each

vars == <<cmd, pc, err, patch_file, kwargs, patch, idx, obj, obj1, obj2, force,
          odb, echoed, arg, obj0, odb0, applied, hist, tree_adds>>

(***************************************************************************)
(* Bounds and input sets.                                                  *)
(***************************************************************************)
\* The most operation records one run is given (patch file plus options).
MaxOps == 2

\* Paths named inside the tree.
TreePaths == { <<"a">>, <<"b", "/", "c">> }

\* Local files that --add / --modify read (click.Path(exists=True)).
LocalPaths == { <<"f">> }

\* The directory of the patch file.
PatchDir == <<"p">>

\* The characters of the model, in code-point order.
Alphabet == <<"/", "a", "b", "c", "f", "p">>

(***************************************************************************)
(* Strings and keys.                                                       *)
(***************************************************************************)
RECURSIVE SplitAcc(_, _, _)
SplitAcc(s, cur, acc) ==
    IF s = <<>> THEN Append(acc, cur)
    ELSE IF Head(s) = "/" THEN SplitAcc(Tail(s), <<>>, Append(acc, cur))
    ELSE SplitAcc(Tail(s), Append(cur, Head(s)), acc)

\* tuple(path.split("/")): always at least one segment.
Split(s) == SplitAcc(s, <<>>, <<>>)

RECURSIVE JoinAcc(_, _)
JoinAcc(p, rest) ==
    IF rest = <<>> THEN p
    ELSE LET b == Head(rest)
             q == IF b # <<>> /\ Head(b) = "/" THEN b
                  ELSE IF p = <<>> \/ p[Len(p)] = "/" THEN p \o b
                  ELSE p \o <<"/">> \o b
         IN  JoinAcc(q, Tail(rest))

\* posixpath.join(*key), for a key of at least one segment.
PosixJoin(key) == JoinAcc(Head(key), Tail(key))

\* dvc_data.diff.ROOT, the key of a tree's own entry.
ROOT == <<>>

\* os.fspath(patch_file.parent.joinpath(path)) for a relative path.
ResolvePath(path) == PatchDir \o <<"/">> \o path

Ord(c) == CHOOSE i \in 1..Len(Alphabet) : Alphabet[i] = c

RECURSIVE StrLess(_, _)
StrLess(s, t) ==
    IF t = <<>> THEN FALSE
    ELSE IF s = <<>> THEN TRUE
    ELSE IF Head(s) # Head(t) THEN Ord(Head(s)) < Ord(Head(t))
    ELSE StrLess(Tail(s), Tail(t))

RECURSIVE KeyLess(_, _)
KeyLess(k, l) ==
    IF l = <<>> THEN FALSE
    ELSE IF k = <<>> THEN TRUE
    ELSE IF Head(k) # Head(l) THEN StrLess(Head(k), Head(l))
    ELSE KeyLess(Tail(k), Tail(l))

RECURSIVE SortedKeys(_)
SortedKeys(S) ==
    IF S = {} THEN <<>>
    ELSE LET m == CHOOSE k \in S : \A l \in S \ {k} : KeyLess(k, l)
         IN  <<m>> \o SortedKeys(S \ {m})

(***************************************************************************)
(* The Tree object (dvc_data.objects.tree.Tree).                           *)
(***************************************************************************)
NoTrie == [built |-> FALSE, keys |-> {}]

BuiltTrie(d) == [built |-> TRUE, keys |-> DOMAIN d]

EmptyDict == [k \in {} |-> <<>>]

\* dict.pop(key) on a key that is present.
DictPop(d, key) == [k \in DOMAIN d \ {key} |-> d[k]]

\* d[key] = value
DictSet(d, key, value) ==
    [k \in DOMAIN d \cup {key} |-> IF k = key THEN value ELSE d[k]]

\* Tree.digest(): the oid of the canonical serialization, the entries in
\* sorted key order.
TreeOid(d) ==
    LET ks == SortedKeys(DOMAIN d)
    IN  [i \in 1..Len(ks) |-> <<ks[i], d[ks[i]][1], d[ks[i]][2]>>]

\* Tree.add(key, meta, oid): drops the cached trie, sets the entry.
TreeAdd(tree, key, meta, oid) ==
    [tree EXCEPT !.trie = NoTrie, !.dict = DictSet(tree.dict, key, <<meta, oid>>)]

\* Tree.get(key)
TreeGet(tree, key) == tree.dict[key]

\* Tree.digest()
TreeDigest(tree) ==
    [tree EXCEPT !.hash_info = [valid |-> TRUE, value |-> TreeOid(tree.dict)]]

\* load(odb, hash_info) of a tree object
LoadTree(d, trie) ==
    [dict |-> d, trie |-> trie, hash_info |-> [valid |-> TRUE, value |-> TreeOid(d)]]

\* Tree(): no entries, no trie, no hash_info yet.
NoHash == [valid |-> FALSE, value |-> <<>>]

\* build(odb, path, fs, "md5") of a local file: its meta and hash_info.
Build(path) == [meta |-> "m3", oid |-> "d3"]

\* odb.add of a file object
OdbAddFile(o, oid) == [o EXCEPT !.files = @ \cup {oid}]

\* odb.add of a tree object
OdbAddTree(o, oid) == [o EXCEPT !.trees = @ \cup {oid}]

(***************************************************************************)
(* apply_op                                                                *)
(***************************************************************************)
Ok(tree, o) == [err |-> "", tree |-> tree, odb |-> o]

Raise(e, tree, o) == [err |-> e, tree |-> tree, odb |-> o]

\* A plausible slip: the content is built, stored and inserted before the
\* target key is checked.
ApplyAddModifyLateCheck(o, tree, application) ==
    IF "to" \notin DOMAIN application THEN Raise("KeyError", tree, o)
    ELSE LET new == Split(application.to)
             b == Build(application.path)
             o2 == OdbAddFile(o, b.oid)
         IN  IF application.op = "add" /\ new \in DOMAIN tree.dict
             THEN Raise("FileExistsError", tree, o2)
             ELSE Ok(TreeAdd(tree, new, b.meta, b.oid), o2)

\* A plausible slip: the entry is inserted under the key of the local path
\* instead of the key of `to`.
ApplyAddModifyAtPath(o, tree, application) ==
    IF "to" \notin DOMAIN application THEN Raise("KeyError", tree, o)
    ELSE LET new == Split(application.to)
             b == Build(application.path)
         IN  IF application.op = "add" /\ new \in DOMAIN tree.dict
             THEN Raise("FileExistsError", tree, o)
             ELSE Ok(TreeAdd(tree, Split(application.path), b.meta, b.oid),
                     OdbAddFile(o, b.oid))

\* op in ("add", "modify")
ApplyAddModify(o, tree, application) ==
    IF "to" \notin DOMAIN application THEN Raise("KeyError", tree, o)
    ELSE LET new == Split(application.to)
         IN  IF application.op = "add" /\ new \in DOMAIN tree.dict
             THEN Raise("FileExistsError", tree, o)
             ELSE LET b == Build(application.path)
                  IN  Ok(TreeAdd(tree, new, b.meta, b.oid), OdbAddFile(o, b.oid))

\* A plausible slip: the entry is popped and the cached trie is kept.
ApplyRemoveKeepTrie(tree, keys) ==
    [tree EXCEPT !.dict = DictPop(@, keys)]

\* op == "remove": obj._dict.pop(keys); obj.__dict__.pop("trie", None)
ApplyRemove(tree, keys) ==
    [tree EXCEPT !.dict = DictPop(@, keys), !.trie = NoTrie]

\* op in ("copy", "move"), the source key being present
ApplyCopyMove(o, tree, application) ==
    IF "to" \notin DOMAIN application THEN Raise("KeyError", tree, o)
    ELSE LET keys == Split(application.path)
             new == Split(application.to)
             e == TreeGet(tree, keys)
             added == TreeAdd(tree, new, e[1], e[2])
         IN  IF application.op = "move"
             THEN Ok([added EXCEPT !.dict = DictPop(@, keys)], o)
             ELSE Ok(added, o)

\* A plausible slip: the presence check of the source key is missing, so
\* dict.pop raises KeyError, obj.get returns None and test passes.
ApplyOnKeyNoCheck(o, tree, application) ==
    LET op == application.op
        keys == Split(application.path)
        present == keys \in DOMAIN tree.dict
    IN  IF op = "test" THEN Ok(tree, o)
        ELSE IF op = "remove"
             THEN IF present THEN Ok(ApplyRemove(tree, keys), o)
                  ELSE Raise("KeyError", tree, o)
        ELSE IF op \in {"copy", "move"}
             THEN IF present THEN ApplyCopyMove(o, tree, application)
                  ELSE Raise("TypeError", tree, o)
        ELSE Raise("ValueError", tree, o)

\* every op but add and modify
ApplyOnKey(o, tree, application) ==
    LET op == application.op
        keys == Split(application.path)
    IN  IF keys \notin DOMAIN tree.dict THEN Raise("FileNotFoundError", tree, o)
        ELSE IF op = "test" THEN Ok(tree, o)
        ELSE IF op = "remove" THEN Ok(ApplyRemove(tree, keys), o)
        ELSE IF op \in {"copy", "move"} THEN ApplyCopyMove(o, tree, application)
        ELSE Raise("ValueError", tree, o)

\* apply_op(odb, obj, application): the error raised ("" if none), the tree
\* and the store after the call.
ApplyOp(o, tree, application) ==
    IF application.op \in {"add", "modify"}
    THEN ApplyAddModify(o, tree, application)
    ELSE ApplyOnKey(o, tree, application)

(***************************************************************************)
(* process_patch                                                           *)
(***************************************************************************)
\* The order update_tree's signature declares the options in.
KwOrderDeclared == <<"add", "modify", "move", "copy", "remove", "test">>

\* The order update_tree passes the options to process_patch in.
KwOrder == <<"add", "remove", "modify", "copy", "move", "test">>

\* {"op": op, **extra}: a tuple item carries path and to, a str item path.
ItemRecord(op, item) ==
    IF "to" \in DOMAIN item
    THEN [op |-> op, path |-> item.path, to |-> item.to]
    ELSE [op |-> op, path |-> item.path]

RECURSIVE KwargsRecords(_, _)
KwargsRecords(kw, names) ==
    IF names = <<>> THEN <<>>
    ELSE LET items == kw[Head(names)]
         IN  [i \in 1..Len(items) |-> ItemRecord(Head(names), items[i])]
                 \o KwargsRecords(kw, Tail(names))

\* if op and path and op in ("add", "modify")
NeedsResolve(appl) ==
    /\ "op" \in DOMAIN appl
    /\ "path" \in DOMAIN appl
    /\ appl.path # <<>>
    /\ appl.op \in {"add", "modify"}

\* process_patch(patch_file, **kwargs): the error raised ("" if none) and
\* the list returned.  For a record that needs resolving the assignment
\* patch[appl]["path"] = os.fspath(patch_file.parent.joinpath(path)) raises:
\* patch_file is the str click.Path hands over, which has no .parent
\* (AttributeError), and patch is a list indexed by the dict appl.
ProcessPatch(pf, kw) ==
    LET loaded == IF pf.given THEN pf.records ELSE <<>>
    IN  IF \E i \in 1..Len(loaded) : NeedsResolve(loaded[i])
        THEN [err |-> "AttributeError", patch |-> <<>>]
        ELSE [err |-> "", patch |-> loaded \o KwargsRecords(kw, KwOrder)]

(***************************************************************************)
(* diff and merge (dvc_data.diff.diff, dvc_data.objects.tree.merge)        *)
(***************************************************************************)
\* diff(old, new, odb).modified, in key order: the root entry when the two
\* trees differ, and every key of both whose digest differs.
DiffModified(a, b) ==
    LET common == {k \in DOMAIN a \cap DOMAIN b : a[k][2] # b[k][2]}
        ks == SortedKeys(common)
        root == IF TreeOid(a) # TreeOid(b)
                THEN <<[old |-> [key |-> ROOT], new |-> [key |-> ROOT]]>>
                ELSE <<>>
    IN  root \o [i \in 1..Len(ks) |->
                    [old |-> [key |-> ks[i], oid |-> a[ks[i]][2]],
                     new |-> [key |-> ks[i], oid |-> b[ks[i]][2]]]]

\* merge(odb, None, a, b): the entries of a, with those of b on top.
Merge(a, b) ==
    [dict |-> [k \in DOMAIN a \cup DOMAIN b |-> IF k \in DOMAIN b THEN b[k] ELSE a[k]],
     trie |-> NoTrie,
     hash_info |-> NoHash]

RECURSIVE ConflictsWithRoot(_)
\* A plausible slip: the root entry is not left out.
ConflictsWithRoot(changes) ==
    IF changes = <<>> THEN <<>>
    ELSE <<IF Head(changes).old.key = ROOT THEN <<>> ELSE PosixJoin(Head(changes).old.key)>>
             \o ConflictsWithRoot(Tail(changes))

RECURSIVE Conflicts(_)
\* [posixpath.join(*change.old.key) for change in d.modified
\*  if change.old.key != ROOT]
Conflicts(changes) ==
    IF changes = <<>> THEN <<>>
    ELSE (IF Head(changes).old.key # ROOT
          THEN <<PosixJoin(Head(changes).old.key)>>
          ELSE <<>>) \o Conflicts(Tail(changes))

(***************************************************************************)
(* Inputs.                                                                 *)
(***************************************************************************)
SeqsUpTo(S, n) == UNION {[1..k -> S] : k \in 0..n}

\* --add / --modify items: (local path, path in the tree)
BuildItems == {[path |-> p, to |-> t] : p \in LocalPaths, t \in TreePaths}

\* --copy / --move items: (path in the tree, path in the tree)
PairItems == {[path |-> p, to |-> t] : p \in TreePaths, t \in TreePaths}

\* --remove / --test items: a path in the tree
PathItems == {[path |-> p] : p \in TreePaths}

\* The records a patch file may hold; "rename" is an op apply_op does not know.
FileRecords ==
    {ItemRecord(op, it) : op \in {"add", "modify"}, it \in BuildItems}
    \cup {ItemRecord(op, it) : op \in {"copy", "move"}, it \in PairItems}
    \cup {ItemRecord(op, it) : op \in {"remove", "test", "rename"}, it \in PathItems}

\* The entry a stored tree holds at a key.
StoredEntry(key) == IF key = Split(<<"a">>) THEN <<"m1", "d1">> ELSE <<"m2", "d2">>

\* The entry of the other side of a merge where it differs.
ChangedEntry == <<"m4", "d4">>

TreeKeys == {Split(p) : p \in TreePaths}

\* The trees update-tree loads, and the first tree of a merge.
LoadedDicts == {[k \in S |-> StoredEntry(k)] : S \in SUBSET TreeKeys}

\* The second tree of a merge.
OtherDicts ==
    UNION {[S -> {"same", "changed"}] : S \in SUBSET TreeKeys}

OtherDict(f) == [k \in DOMAIN f |-> IF f[k] = "same" THEN StoredEntry(k) ELSE ChangedEntry]

\* The store that holds the given trees and the objects they name.
StoreOf(dicts) ==
    [files |-> UNION {{d[k][2] : k \in DOMAIN d} : d \in dicts},
     trees |-> {TreeOid(d) : d \in dicts}]

\* The stores earlier rm and build --write runs leave of a store: objects of
\* the trees may be gone, the object of the local file may be there.  The
\* trees themselves are there, for the command has loaded them.
PriorStores(dicts) ==
    {[files |-> (StoreOf(dicts).files \ gone) \cup built,
      trees |-> StoreOf(dicts).trees] :
        gone \in SUBSET StoreOf(dicts).files,
        built \in {{}, {Build(p).oid : p \in LocalPaths}}}

\* The argument of a command that takes neither an oid to remove nor a path
\* to build.
NoArg == [path |-> <<>>, write |-> FALSE]

NoKwargs == [add |-> <<>>, remove |-> <<>>, modify |-> <<>>, copy |-> <<>>,
             move |-> <<>>, test |-> <<>>]

(***************************************************************************)
(* update_tree                                                             *)
(***************************************************************************)
InitUpdateTree ==
    /\ cmd = "update-tree"
    /\ pc = "process_patch"
    /\ err = ""
    /\ \E given \in BOOLEAN :
       \E f \in (IF given THEN SeqsUpTo(FileRecords, MaxOps) ELSE {<<>>}) :
       \E a \in SeqsUpTo(BuildItems, MaxOps - Len(f)) :
       \E r \in SeqsUpTo(PathItems, MaxOps - Len(f) - Len(a)) :
       \E m \in SeqsUpTo(BuildItems, MaxOps - Len(f) - Len(a) - Len(r)) :
       \E c \in SeqsUpTo(PairItems, MaxOps - Len(f) - Len(a) - Len(r) - Len(m)) :
       \E v \in SeqsUpTo(PairItems,
                         MaxOps - Len(f) - Len(a) - Len(r) - Len(m) - Len(c)) :
       \E t \in SeqsUpTo(PathItems,
                         MaxOps - Len(f) - Len(a) - Len(r) - Len(m) - Len(c) - Len(v)) :
          /\ patch_file = [given |-> given, records |-> f]
          /\ kwargs = [add |-> a, remove |-> r, modify |-> m, copy |-> c,
                       move |-> v, test |-> t]
    /\ patch = <<>>
    /\ idx = 1
    /\ \E d \in LoadedDicts, cached \in BOOLEAN :
          /\ obj = LoadTree(d, IF cached THEN BuiltTrie(d) ELSE NoTrie)
          /\ obj0 = d
          /\ \E o \in PriorStores({d}) :
                /\ odb = o
                /\ odb0 = o
    /\ obj1 = EmptyDict
    /\ obj2 = EmptyDict
    /\ force = FALSE
    /\ arg = NoArg
    /\ echoed = <<>>
    /\ applied = <<>>
    /\ hist = <<>>
    /\ tree_adds = <<>>

\* patch = process_patch(patch_file, add=add, remove=remove, ...)
UpdateTreeProcessPatch ==
    /\ cmd = "update-tree"
    /\ pc = "process_patch"
    /\ LET r == ProcessPatch(patch_file, kwargs)
       IN  /\ patch' = r.patch
           /\ err' = r.err
           /\ pc' = IF r.err = "" THEN "loop" ELSE "raised"
    /\ UNCHANGED <<arg, cmd, patch_file, kwargs, idx, obj, obj1, obj2, force, odb,
                   echoed, obj0, odb0, applied, hist, tree_adds>>

\* A plausible slip: the tree is put back as loaded when an operation fails.
UpdateTreeApplyRollback ==
    /\ cmd = "update-tree"
    /\ pc = "loop"
    /\ idx <= Len(patch)
    /\ LET r == ApplyOp(odb, obj, patch[idx])
       IN  /\ obj' = IF r.err = "" THEN r.tree ELSE [r.tree EXCEPT !.dict = obj0]
           /\ odb' = r.odb
           /\ err' = r.err
           /\ idx' = IF r.err = "" THEN idx + 1 ELSE idx
           /\ pc' = IF r.err = "" THEN "loop"
                    ELSE IF r.err \in {"FileExistsError", "FileNotFoundError"}
                    THEN "exit1" ELSE "raised"
    /\ applied' = Append(applied, idx)
    /\ hist' = Append(hist, [dict |-> obj.dict, trie |-> obj.trie, odb |-> odb])
    /\ UNCHANGED <<arg, cmd, patch_file, kwargs, patch, obj1, obj2, force, echoed,
                   obj0, odb0, tree_adds>>

\* One round of `for application in patch`: apply_op, and Exit(1) on
\* FileExistsError or FileNotFoundError; any other exception propagates.
UpdateTreeApply ==
    /\ cmd = "update-tree"
    /\ pc = "loop"
    /\ idx <= Len(patch)
    /\ LET r == ApplyOp(odb, obj, patch[idx])
       IN  /\ obj' = r.tree
           /\ odb' = r.odb
           /\ err' = r.err
           /\ idx' = IF r.err = "" THEN idx + 1 ELSE idx
           /\ pc' = IF r.err = "" THEN "loop"
                    ELSE IF r.err \in {"FileExistsError", "FileNotFoundError"}
                    THEN "exit1" ELSE "raised"
    /\ applied' = Append(applied, idx)
    /\ hist' = Append(hist, [dict |-> obj.dict, trie |-> obj.trie, odb |-> odb])
    /\ UNCHANGED <<arg, cmd, patch_file, kwargs, patch, obj1, obj2, force, echoed,
                   obj0, odb0, tree_adds>>

\* A plausible slip: the tree goes to the store under the oid it was loaded
\* with.
UpdateTreeSkipDigest ==
    /\ cmd = "update-tree"
    /\ pc = "loop"
    /\ idx > Len(patch)
    /\ pc' = "add"
    /\ UNCHANGED <<arg, cmd, err, patch_file, kwargs, patch, idx, obj, obj1, obj2,
                   force, odb, echoed, obj0, odb0, applied, hist, tree_adds>>

\* obj.digest(), once the loop has run through the whole patch
UpdateTreeDigest ==
    /\ cmd = "update-tree"
    /\ pc = "loop"
    /\ idx > Len(patch)
    /\ obj' = TreeDigest(obj)
    /\ pc' = "add"
    /\ UNCHANGED <<arg, cmd, err, patch_file, kwargs, patch, idx, obj1, obj2, force,
                   odb, echoed, obj0, odb0, applied, hist, tree_adds>>

\* typer.echo(obj); odb.add(obj.path, obj.fs, obj.oid, hardlink=True)
UpdateTreeOdbAdd ==
    /\ cmd = "update-tree"
    /\ pc = "add"
    /\ odb' = OdbAddTree(odb, obj.hash_info.value)
    /\ tree_adds' = Append(tree_adds, [oid |-> obj.hash_info, dict |-> obj.dict])
    /\ pc' = "done"
    /\ UNCHANGED <<arg, cmd, err, patch_file, kwargs, patch, idx, obj, obj1, obj2,
                   force, echoed, obj0, odb0, applied, hist>>

(***************************************************************************)
(* merge_tree                                                              *)
(***************************************************************************)
InitMergeTree ==
    /\ cmd = "merge-tree"
    /\ pc = "check"
    /\ err = ""
    /\ patch_file = [given |-> FALSE, records |-> <<>>]
    /\ kwargs = NoKwargs
    /\ patch = <<>>
    /\ idx = 1
    /\ obj = [dict |-> EmptyDict, trie |-> NoTrie, hash_info |-> NoHash]
    /\ \E a \in LoadedDicts, f \in OtherDicts :
          /\ obj1 = a
          /\ obj2 = OtherDict(f)
          /\ \E o \in PriorStores({a, OtherDict(f)}) :
                /\ odb = o
                /\ odb0 = o
    /\ force \in BOOLEAN
    /\ arg = NoArg
    /\ echoed = <<>>
    /\ obj0 = EmptyDict
    /\ applied = <<>>
    /\ hist = <<>>
    /\ tree_adds = <<>>

\* if not force: the conflict check, raise typer.Exit(1) on a conflict
MergeTreeCheck ==
    /\ cmd = "merge-tree"
    /\ pc = "check"
    /\ LET modified == IF force THEN <<>> ELSE Conflicts(DiffModified(obj1, obj2))
       IN  /\ echoed' = modified
           /\ pc' = IF modified # <<>> THEN "exit1" ELSE "merge"
    /\ UNCHANGED <<arg, cmd, err, patch_file, kwargs, patch, idx, obj, obj1, obj2,
                   force, odb, obj0, odb0, applied, hist, tree_adds>>

\* tree = merge(odb, None, obj1.hash_info, obj2.hash_info)
MergeTreeMerge ==
    /\ cmd = "merge-tree"
    /\ pc = "merge"
    /\ obj' = Merge(obj1, obj2)
    /\ pc' = "digest"
    /\ UNCHANGED <<arg, cmd, err, patch_file, kwargs, patch, idx, obj1, obj2, force,
                   odb, echoed, obj0, odb0, applied, hist, tree_adds>>

\* tree.digest()
MergeTreeDigest ==
    /\ cmd = "merge-tree"
    /\ pc = "digest"
    /\ obj' = TreeDigest(obj)
    /\ pc' = "add"
    /\ UNCHANGED <<arg, cmd, err, patch_file, kwargs, patch, idx, obj1, obj2, force,
                   odb, echoed, obj0, odb0, applied, hist, tree_adds>>

\* typer.echo(tree); odb.add(tree.path, tree.fs, tree.oid, hardlink=True)
MergeTreeOdbAdd ==
    /\ cmd = "merge-tree"
    /\ pc = "add"
    /\ odb' = OdbAddTree(odb, obj.hash_info.value)
    /\ tree_adds' = Append(tree_adds, [oid |-> obj.hash_info, dict |-> obj.dict])
    /\ pc' = "done"
    /\ UNCHANGED <<arg, cmd, err, patch_file, kwargs, patch, idx, obj, obj1, obj2,
                   force, echoed, obj0, odb0, applied, hist>>

(***************************************************************************)
(* rm and build                                                            *)
(***************************************************************************)
\* The state of a command that edits no tree.
NoTreeCommand ==
    /\ err = ""
    /\ patch_file = [given |-> FALSE, records |-> <<>>]
    /\ kwargs = NoKwargs
    /\ patch = <<>>
    /\ idx = 1
    /\ obj = [dict |-> EmptyDict, trie |-> NoTrie, hash_info |-> NoHash]
    /\ obj1 = EmptyDict
    /\ obj2 = EmptyDict
    /\ obj0 = EmptyDict
    /\ force = FALSE
    /\ echoed = <<>>
    /\ applied = <<>>
    /\ hist = <<>>
    /\ tree_adds = <<>>

\* The store has the object of the given oid.
OdbHas(o, oid) == IF oid.tree THEN oid.dir \in o.trees ELSE oid.file \in o.files

\* odb.fs.remove(odb.oid_to_path(oid))
OdbRemove(o, oid) ==
    IF oid.tree THEN [o EXCEPT !.trees = @ \ {oid.dir}]
    ELSE [o EXCEPT !.files = @ \ {oid.file}]

\* The oids rm may be given: of a file object or of a tree object, in the
\* store or not.
RmOids(d) ==
    {[tree |-> FALSE, file |-> v, dir |-> <<>>] : v \in {"d1", "d2", "d3"}}
        \cup {[tree |-> TRUE, file |-> "", dir |-> TreeOid(e)] : e \in {d, EmptyDict}}

InitRm ==
    /\ cmd = "rm"
    /\ pc = "rm"
    /\ NoTreeCommand
    /\ \E d \in LoadedDicts :
          /\ arg \in RmOids(d)
          /\ \E o \in PriorStores({d}) :
                /\ odb = o
                /\ odb0 = o

\* rm(oid): on an oid the store does not have from_shortoid catches the
\* KeyError of odb.exists_prefix and raises Exit(1) from it; otherwise the
\* object's file is removed from the store.
Rm ==
    /\ cmd = "rm"
    /\ pc = "rm"
    /\ IF OdbHas(odb, arg)
       THEN /\ odb' = OdbRemove(odb, arg)
            /\ err' = err
            /\ pc' = "done"
       ELSE /\ odb' = odb
            /\ err' = "KeyError"
            /\ pc' = "exit1"
    /\ UNCHANGED <<arg, cmd, patch_file, kwargs, patch, idx, obj, obj1, obj2,
                   force, echoed, obj0, odb0, applied, hist, tree_adds>>

InitBuild ==
    /\ cmd = "build"
    /\ pc = "build"
    /\ NoTreeCommand
    /\ \E p \in LocalPaths, w \in BOOLEAN : arg = [path |-> p, write |-> w]
    /\ \E d \in LoadedDicts :
       \E o \in PriorStores({d}) :
          /\ odb = o
          /\ odb0 = o

\* build(path, write): the object of the local file is built and, with
\* --write, transferred into the store.
BuildWrite ==
    /\ cmd = "build"
    /\ pc = "build"
    /\ odb' = IF arg.write THEN OdbAddFile(odb, Build(arg.path).oid) ELSE odb
    /\ pc' = "done"
    /\ UNCHANGED <<arg, cmd, err, patch_file, kwargs, patch, idx, obj, obj1, obj2,
                   force, echoed, obj0, odb0, applied, hist, tree_adds>>

Init == InitUpdateTree \/ InitMergeTree \/ InitRm \/ InitBuild

Next ==
    \/ UpdateTreeProcessPatch
    \/ UpdateTreeApply
    \/ UpdateTreeDigest
    \/ UpdateTreeOdbAdd
    \/ MergeTreeCheck
    \/ MergeTreeMerge
    \/ MergeTreeDigest
    \/ MergeTreeOdbAdd
    \/ Rm
    \/ BuildWrite

Spec == Init /\ [][Next]_vars

(***************************************************************************)
(* Properties.                                                             *)
(***************************************************************************)
\* An apply_op call has been made in this run.
Called == cmd = "update-tree" /\ applied # <<>>

\* The record of the last apply_op call, and the state right before it.
LastOp == patch[applied[Len(applied)]]

Before == hist[Len(hist)]

\* The last apply_op call raised nothing.
LastOk == Called /\ pc \in {"loop", "add", "done"}

\* The command stopped on an exception or on Exit(1).
Stopped == pc \in {"exit1", "raised"}

RECURSIVE AfterPrefix(_)
\* The _dict that applying the first n records of patch to the loaded tree
\* one after the other gives.
AfterPrefix(n) ==
    IF n = 0 THEN obj0
    ELSE ApplyOp(odb0, LoadTree(AfterPrefix(n - 1), NoTrie), patch[n]).tree.dict

\* C1: update_tree calls apply_op on the records in list order; when the call
\* on record i fails no later record is applied, and the tree is the one the
\* records before i produced, with nothing rolled back.
C1_FailFast ==
    cmd = "update-tree" =>
        /\ applied = [k \in 1..Len(applied) |-> k]
        /\ Len(applied) <= Len(patch)
        /\ (Called /\ Stopped) =>
              /\ obj.dict = Before.dict
              /\ obj.dict = AfterPrefix(Len(applied) - 1)
              /\ ~ ENABLED UpdateTreeApply

\* C1 witness: the second record failed after the first changed the tree.
C1_Witness ==
    /\ Called
    /\ pc = "exit1"
    /\ Len(applied) = 2
    /\ obj.dict # obj0

\* C2: after a move whose source key is present, `to` holds the entry `path`
\* held and `path` is gone when it differs from `to`, for every `path` and
\* `to`, `to` equal to `path` included.
C2_MoveRekeys ==
    (Called /\ LastOp.op = "move" /\ Split(LastOp.path) \in DOMAIN Before.dict) =>
        LET src == Split(LastOp.path)
            dst == Split(LastOp.to)
        IN  /\ dst \in DOMAIN obj.dict
            /\ obj.dict[dst] = Before.dict[src]
            /\ (dst # src => src \notin DOMAIN obj.dict)

\* C3: an add onto a present key fails with FileExistsError and changes
\* neither the entries nor the store; an add onto an absent key inserts the
\* one entry at that key, with the digest of the content, and changes no other.
C3_AddExisting ==
    (Called /\ LastOp.op = "add") =>
        LET dst == Split(LastOp.to)
        IN  IF dst \in DOMAIN Before.dict
            THEN /\ pc = "exit1"
                 /\ err = "FileExistsError"
                 /\ obj.dict = Before.dict
                 /\ odb = Before.odb
            ELSE /\ LastOk
                 /\ DOMAIN obj.dict = DOMAIN Before.dict \cup {dst}
                 /\ obj.dict[dst][2] = Build(LastOp.path).oid
                 /\ \A k \in DOMAIN Before.dict : obj.dict[k] = Before.dict[k]

\* C3 witness: an add onto a present key has failed.
C3_Witness ==
    /\ Called
    /\ LastOp.op = "add"
    /\ Split(LastOp.to) \in DOMAIN Before.dict
    /\ pc = "exit1"

\* C4: remove, move, copy and test fail with FileNotFoundError on an absent
\* source key and leave the entries alone; test never changes the entries; a
\* successful remove deletes the entry at `path` and no other.
C4_NotFound ==
    (Called /\ LastOp.op \in {"remove", "move", "copy", "test"}) =>
        LET src == Split(LastOp.path)
        IN  /\ src \notin DOMAIN Before.dict =>
                  /\ pc = "exit1"
                  /\ err = "FileNotFoundError"
                  /\ obj.dict = Before.dict
            /\ LastOp.op = "test" =>
                  /\ obj.dict = Before.dict
                  /\ src \in DOMAIN Before.dict => LastOk
            /\ (LastOp.op = "remove" /\ src \in DOMAIN Before.dict) =>
                  /\ LastOk
                  /\ DOMAIN obj.dict = DOMAIN Before.dict \ {src}
                  /\ \A k \in DOMAIN obj.dict : obj.dict[k] = Before.dict[k]

\* C4 witness: a copy or move of an absent key has failed on a tree that is
\* not empty.
C4_Witness ==
    /\ Called
    /\ LastOp.op \in {"copy", "move"}
    /\ Split(LastOp.path) \notin DOMAIN Before.dict
    /\ Before.dict # EmptyDict
    /\ pc = "exit1"

\* The keys of both trees whose digests differ.
ConflictKeys == {k \in DOMAIN obj1 \cap DOMAIN obj2 : obj1[k][2] # obj2[k][2]}

\* C5: without force merge_tree exits 1 exactly when the diff of the two
\* trees has a modified entry off the root; it then echoes every such path,
\* merges nothing and adds nothing to the store.  With force the merge is
\* always attempted.
C5_MergeConflict ==
    (cmd = "merge-tree" /\ pc # "check") =>
        /\ ~force =>
              ((pc = "exit1") <=>
                  \E i \in 1..Len(DiffModified(obj1, obj2)) :
                      DiffModified(obj1, obj2)[i].old.key # ROOT)
        /\ pc = "exit1" =>
              /\ {echoed[i] : i \in 1..Len(echoed)} = {PosixJoin(k) : k \in ConflictKeys}
              /\ Len(echoed) = Cardinality(ConflictKeys)
              /\ obj.dict = EmptyDict
              /\ ~obj.hash_info.valid
              /\ odb = odb0
              /\ tree_adds = <<>>
        /\ force => pc \in {"merge", "digest", "add", "done"}

\* C5 witness: a merge without force has stopped on two conflicting paths.
C5_Witness ==
    /\ cmd = "merge-tree"
    /\ pc = "exit1"
    /\ Len(echoed) = 2

\* The command is one that edits a tree and stores it.
TreeCommand == cmd \in {"update-tree", "merge-tree"}

\* C6: a tree goes to the store under the digest of the entries it has at
\* that moment (digest() comes after the last mutation and before odb.add),
\* and a command that stopped on a failed operation or on a conflict has
\* neither digested the tree nor added it.
C6_DigestBeforeAdd ==
    /\ \A i \in 1..Len(tree_adds) :
          /\ tree_adds[i].oid.valid
          /\ tree_adds[i].oid.value = TreeOid(tree_adds[i].dict)
    /\ (TreeCommand /\ pc \in {"add", "done"}) =>
          /\ obj.hash_info.valid
          /\ obj.hash_info.value = TreeOid(obj.dict)
    /\ (TreeCommand /\ pc = "done") => Len(tree_adds) = 1
    /\ (TreeCommand /\ Stopped) =>
          /\ tree_adds = <<>>
          /\ odb.trees = odb0.trees
          /\ obj.hash_info = IF cmd = "update-tree"
                             THEN [valid |-> TRUE, value |-> TreeOid(obj0)]
                             ELSE NoHash

\* C6 witness: update_tree has stored a tree whose entries the patch changed.
C6_Witness ==
    /\ cmd = "update-tree"
    /\ pc = "done"
    /\ obj.dict # obj0
    /\ Len(tree_adds) = 1

\* Loading the patch file raised.
LoadFailed == cmd = "update-tree" /\ pc = "raised" /\ applied = <<>>

\* C7: loading a patch file succeeds for every well-formed file and gives
\* its records in order, those with op add or modify with `path` resolved
\* against the directory of the file, the others as they are.
C7_PatchFileLoads ==
    (cmd = "update-tree" /\ pc # "process_patch" /\ patch_file.given) =>
        /\ ~LoadFailed
        /\ Len(patch) >= Len(patch_file.records)
        /\ \A i \in 1..Len(patch_file.records) :
              patch[i] = IF patch_file.records[i].op \in {"add", "modify"}
                         THEN [patch_file.records[i] EXCEPT
                                  !.path = ResolvePath(patch_file.records[i].path)]
                         ELSE patch_file.records[i]

\* C8: the cached trie is never stale: when it is there it indexes the
\* current keys, and it is gone after every add, modify, remove, copy and
\* move that went through.
C8_TrieNeverStale ==
    /\ obj.trie.built => obj.trie.keys = DOMAIN obj.dict
    /\ (LastOk /\ LastOp.op \in {"add", "modify", "remove", "copy", "move"}) =>
          ~obj.trie.built

\* C8 witness: a remove has gone through on a tree whose trie was cached.
C8_Witness ==
    /\ LastOk
    /\ LastOp.op = "remove"
    /\ Before.trie.built
    /\ ~obj.trie.built

\* The last two apply_op calls were an add onto an absent key and a remove of
\* the same key.
AddThenRemove ==
    /\ Called
    /\ Len(applied) >= 2
    /\ patch[Len(applied) - 1].op = "add"
    /\ LastOp.op = "remove"
    /\ LastOp.path = patch[Len(applied) - 1].to
    /\ Split(LastOp.path) \notin DOMAIN hist[Len(hist) - 1].dict

\* C9: an add onto an absent key followed by a remove of the same key gives
\* back the entries there were before the add; the store alone keeps the
\* added object.
C9_AddRemoveRoundTrip ==
    AddThenRemove =>
        /\ LastOk
        /\ obj.dict = hist[Len(hist) - 1].dict
        /\ odb.files = hist[Len(hist) - 1].odb.files
                          \cup {Build(patch[Len(applied) - 1].path).oid}

\* C9 witness: such a pair has run on a tree that is not empty.
C9_Witness ==
    /\ AddThenRemove
    /\ LastOk
    /\ obj.dict # EmptyDict

\* The records of one option, in the order given.
OptionRecords(op) == [i \in 1..Len(kwargs[op]) |-> ItemRecord(op, kwargs[op][i])]

\* C10: the batch is the records of the patch file, then the --add items,
\* then --remove, --modify, --copy, --move and --test, each group in the
\* order given; apply_op runs on these records in this order, and on all of
\* them when the command completes.
C10_BatchOrder ==
    (cmd = "update-tree" /\ pc # "process_patch" /\ ~LoadFailed) =>
        /\ patch = patch_file.records \o OptionRecords("add") \o OptionRecords("remove")
                      \o OptionRecords("modify") \o OptionRecords("copy")
                      \o OptionRecords("move") \o OptionRecords("test")
        /\ \A i \in 1..Len(applied) : applied[i] = i
        /\ pc \in {"add", "done"} => Len(applied) = Len(patch)

\* C10 witness: a run with a --modify and a --remove item has completed.
C10_Witness ==
    /\ cmd = "update-tree"
    /\ pc = "done"
    /\ Len(kwargs.modify) = 1
    /\ Len(kwargs.remove) = 1
    /\ Len(applied) = 2

====
